---- MODULE Spec2Model ----
(***************************************************************************)
(* Model of OfficialSoccerNPI (src/myapp/models/official_soccer_npi.py):   *)
(* the ranking engine that ingests game results and computes the NPI by    *)
(* iterating strength of schedule.                                         *)
(*                                                                         *)
(* Numbers.  The program computes in IEEE doubles.  The model computes in  *)
(* exact rational arithmetic: a number is a pair <<n, d>> with d > 0 in    *)
(* lowest terms, so that two numbers are equal exactly when the pairs are. *)
(* Rounding of the doubles is therefore outside the model.                 *)
(*                                                                         *)
(* Dictionaries.  self.teams is a defaultdict: reading self.teams[k] for   *)
(* an absent k creates the default record.  A Python dict iterates in      *)
(* insertion order, so the model keeps the keys as the sequence team_keys  *)
(* beside the function teams.                                              *)
(*                                                                         *)
(* References.  A record returned by calculate_npi holds, under            *)
(* 'quality_wins', the very list object that is team['quality_wins'] at    *)
(* that moment; every other field is a number, a string or a boolean.  The *)
(* model keeps `rankings` as the value calculate_npi returned, and `held`,  *)
(* the result object a caller kept, as its value now together with the set *)
(* of teams whose record in it still holds the team's current list.        *)
(*                                                                         *)
(* Specifications.  Spec drives the engine the way its callers do:         *)
(* add_game, calculate_npi, get_team_summary.  SpecFn ingests games and    *)
(* calls the three calculate_* helpers directly, with dictionaries of the  *)
(* caller's choice, at most MaxHelperCalls times in a behaviour.           *)
(* SpecSeason ingests a season of up to MaxSeasonGames fixtures and then   *)
(* ranks, as scripts/daily_npi_calculator.py does, with a threshold of the *)
(* caller's choice.  SpecCaller is a caller that uses the whole interface  *)
(* on a few fixtures: the helpers, a result it keeps and writes to.        *)
(***************************************************************************)
EXTENDS Integers, Sequences, FiniteSets, TLC

VARIABLES teams,       \* self.teams: name -> team record
          team_keys,   \* insertion order of the keys of self.teams
          final_npis,  \* self.final_npis: name -> number
          rankings,    \* what the latest calculate_npi returned
          rounds,      \* previous_npis/current_npis at the end of each round of the latest calculate_npi
          last_call,   \* the latest call: operation, arguments, outcome
          ret,         \* what the latest call of another method returned
          helper_calls, \* how many direct calls of the calculate_* helpers were made
          ingested,    \* the games ingested so far, in order
          held         \* the result the caller kept: its value now, and the teams whose
                       \* record in it holds the list object team['quality_wins']

vars == <<teams, team_keys, final_npis, rankings, rounds, last_call, ret, helper_calls,
          ingested, held>>

(***************************************************************************)
(* Bounds of the model and the inputs the callers draw from.               *)
(***************************************************************************)
MaxGames == 2
MaxIter == 2
MaxHelperCalls == 1
MaxSeasonGames == 8
MaxWrites == 1

Names == {"A", "B", "C"}
\* (home_score, away_score): a home win, an away win, a tie, a negative score
ScorePairs == {<<1, 0>>, <<0, 1>>, <<1, 1>>, <<-1, 0>>}
None == "None"

(***************************************************************************)
(* Exact rational arithmetic.                                              *)
(***************************************************************************)
Abs(x) == IF x < 0 THEN -x ELSE x

RECURSIVE GCD(_, _)
GCD(a, b) == IF b = 0 THEN a ELSE GCD(b, a % b)

LCM(a, b) == (a \div GCD(a, b)) * b

Rat(n, d) == LET g == GCD(Abs(n), d) IN <<n \div g, d \div g>>

Zero == <<0, 1>>

RAdd(x, y) == LET l == LCM(x[2], y[2])
              IN Rat(x[1] * (l \div x[2]) + y[1] * (l \div y[2]), l)

RSub(x, y) == LET l == LCM(x[2], y[2])
              IN Rat(x[1] * (l \div x[2]) - y[1] * (l \div y[2]), l)

RMul(x, y) == LET g1 == GCD(Abs(x[1]), y[2])
                  g2 == GCD(Abs(y[1]), x[2])
              IN <<(x[1] \div g1) * (y[1] \div g2), (x[2] \div g2) * (y[2] \div g1)>>

\* x / n for an integer n > 0
RDivInt(x, n) == LET g == GCD(Abs(x[1]), n)
                 IN <<x[1] \div g, x[2] * (n \div g)>>

RLess(x, y) == LET l == LCM(x[2], y[2])
               IN x[1] * (l \div x[2]) < y[1] * (l \div y[2])

RLeq(x, y) == ~RLess(y, x)

RAbs(x) == <<Abs(x[1]), x[2]>>

RMax(x, y) == IF RLess(x, y) THEN y ELSE x

RInt(n) == <<n, 1>>

(***************************************************************************)
(* Program constants (OfficialSoccerNPI.__init__).                         *)
(***************************************************************************)
\* variant: weights that add up to more than 1
WIN_PERCENTAGE_WEIGHT_TwoFifths == <<2, 5>>
WIN_PERCENTAGE_WEIGHT == <<1, 5>>
STRENGTH_OF_SCHEDULE_WEIGHT == <<4, 5>>
QUALITY_WIN_BASE == <<54, 1>>
QUALITY_WIN_MULTIPLIER == <<1, 2>>
\* variant: one win more is needed
MINIMUM_WINS_Nine == 8 + 1
MINIMUM_WINS == 8
\* variant: a tie counts half a win
TIE_WIN_VALUE_Half == <<1, 2>>
TIE_WIN_VALUE == <<1, 3>>

\* the record the defaultdict's factory builds
DefaultTeam == [wins |-> 0, losses |-> 0, ties |-> 0,
                opponents |-> <<>>, quality_wins |-> <<>>, games |-> <<>>]

EmptyMap == <<>>

\* d[k] = v on a dictionary d
MapPut(d, k, v) == (k :> v) @@ d

(***************************************************************************)
(* The dictionary self.teams as a value D = [rec, keys].                   *)
(***************************************************************************)
\* self.teams[k]: an absent key is inserted, at the end, with the default
Touch(D, k) ==
    IF k \in DOMAIN D.rec THEN D
    ELSE [rec |-> MapPut(D.rec, k, DefaultTeam), keys |-> Append(D.keys, k)]

\* self.teams[k][f] += 1
Inc(D, k, f) ==
    LET E == Touch(D, k)
    IN [rec |-> MapPut(E.rec, k, [E.rec[k] EXCEPT ![f] = @ + 1]), keys |-> E.keys]

\* self.teams[k][f].append(v)
Push(D, k, f, v) ==
    LET E == Touch(D, k)
    IN [rec |-> MapPut(E.rec, k, [E.rec[k] EXCEPT ![f] = Append(@, v)]), keys |-> E.keys]

(***************************************************************************)
(* add_game                                                                *)
(***************************************************************************)
\* variant: a tie is booked as a home win
Outcome_TieAsHomeWin(D, home_team, away_team, home_score, away_score) ==
    IF home_score >= away_score
    THEN [D |-> Inc(Inc(D, home_team, "wins"), away_team, "losses"),
          winner |-> home_team, loser |-> away_team]
    ELSE [D |-> Inc(Inc(D, away_team, "wins"), home_team, "losses"),
          winner |-> away_team, loser |-> home_team]

Outcome(D, home_team, away_team, home_score, away_score) ==
    IF home_score > away_score
    THEN [D |-> Inc(Inc(D, home_team, "wins"), away_team, "losses"),
          winner |-> home_team, loser |-> away_team]
    ELSE IF away_score > home_score
    THEN [D |-> Inc(Inc(D, away_team, "wins"), home_team, "losses"),
          winner |-> away_team, loser |-> home_team]
    ELSE [D |-> Inc(Inc(D, home_team, "ties"), away_team, "ties"),
          winner |-> None, loser |-> None]

\* variant: the game is stored in the home team's list only
add_game_HomeListOnly(D, home_team, away_team, home_score, away_score) ==
    LET o == Outcome(D, home_team, away_team, home_score, away_score)
        D1 == Push(Push(o.D, home_team, "opponents", away_team),
                   away_team, "opponents", home_team)
        game_data == [home_team |-> home_team, away_team |-> away_team,
                      home_score |-> home_score, away_score |-> away_score,
                      winner |-> o.winner, loser |-> o.loser,
                      is_tie |-> (o.winner = None)]
    IN Push(D1, home_team, "games", game_data)

add_game(D, home_team, away_team, home_score, away_score) ==
    LET o == Outcome(D, home_team, away_team, home_score, away_score)
        D1 == Push(Push(o.D, home_team, "opponents", away_team),
                   away_team, "opponents", home_team)
        game_data == [home_team |-> home_team, away_team |-> away_team,
                      home_score |-> home_score, away_score |-> away_score,
                      winner |-> o.winner, loser |-> o.loser,
                      is_tie |-> (o.winner = None)]
    IN Push(Push(D1, home_team, "games", game_data), away_team, "games", game_data)

(***************************************************************************)
(* calculate_winning_percentage                                            *)
(***************************************************************************)
calculate_winning_percentage(D, team_name) ==
    LET team == Touch(D, team_name).rec[team_name]
        adjusted_wins == RAdd(RInt(team.wins), RMul(RInt(team.ties), TIE_WIN_VALUE))
        total_games == team.wins + team.losses + team.ties
    IN IF total_games = 0 THEN Zero ELSE RDivInt(adjusted_wins, total_games)

(***************************************************************************)
(* calculate_strength_of_schedule                                          *)
(***************************************************************************)
\* variant: an opponent absent from the snapshot counts as an NPI of zero
RECURSIVE SOSLoop_AbsentAsZero(_, _, _, _, _)
SOSLoop_AbsentAsZero(opponents, i, current_npis, total_opponent_npi, valid_opponents) ==
    IF i > Len(opponents)
    THEN [total_opponent_npi |-> total_opponent_npi, valid_opponents |-> valid_opponents]
    ELSE IF opponents[i] \in DOMAIN current_npis
    THEN SOSLoop_AbsentAsZero(opponents, i + 1, current_npis,
                 RAdd(total_opponent_npi, current_npis[opponents[i]]), valid_opponents + 1)
    ELSE SOSLoop_AbsentAsZero(opponents, i + 1, current_npis, total_opponent_npi,
                              valid_opponents + 1)

\* the for loop over opponents from index i on, with its two accumulators
RECURSIVE SOSLoop(_, _, _, _, _)
SOSLoop(opponents, i, current_npis, total_opponent_npi, valid_opponents) ==
    IF i > Len(opponents)
    THEN [total_opponent_npi |-> total_opponent_npi, valid_opponents |-> valid_opponents]
    ELSE IF opponents[i] \in DOMAIN current_npis
    THEN SOSLoop(opponents, i + 1, current_npis,
                 RAdd(total_opponent_npi, current_npis[opponents[i]]), valid_opponents + 1)
    ELSE SOSLoop(opponents, i + 1, current_npis, total_opponent_npi, valid_opponents)

calculate_strength_of_schedule(D, team_name, current_npis) ==
    LET opponents == Touch(D, team_name).rec[team_name].opponents
        acc == SOSLoop(opponents, 1, current_npis, Zero, 0)
    IN IF Len(opponents) = 0 THEN Zero
       ELSE IF acc.valid_opponents = 0 THEN Zero
       ELSE RDivInt(acc.total_opponent_npi, acc.valid_opponents)

(***************************************************************************)
(* calculate_quality_win_bonus: the value returned and the list it leaves  *)
(* in team['quality_wins'].                                                *)
(***************************************************************************)
\* variant: only an opponent strictly above the base qualifies
RECURSIVE QWBLoop_StrictlyAbove(_, _, _, _, _, _)
QWBLoop_StrictlyAbove(games, i, team_name, npis, total_qwb, quality_wins) ==
    IF i > Len(games)
    THEN [total_qwb |-> total_qwb, quality_wins |-> quality_wins]
    ELSE LET game == games[i]
             opponent == IF game.home_team = team_name THEN game.away_team ELSE game.home_team
         IN IF game.winner = team_name
               /\ opponent \in DOMAIN npis
               /\ RLess(QUALITY_WIN_BASE, npis[opponent])
            THEN LET qwb_amount == RMul(RSub(npis[opponent], QUALITY_WIN_BASE), QUALITY_WIN_MULTIPLIER)
                 IN QWBLoop_StrictlyAbove(games, i + 1, team_name, npis,
                            RAdd(total_qwb, qwb_amount),
                            Append(quality_wins, [opponent |-> opponent,
                                                  opponent_npi |-> npis[opponent],
                                                  qwb_amount |-> qwb_amount]))
            ELSE QWBLoop_StrictlyAbove(games, i + 1, team_name, npis, total_qwb, quality_wins)

RECURSIVE QWBLoop(_, _, _, _, _, _)
QWBLoop(games, i, team_name, npis, total_qwb, quality_wins) ==
    IF i > Len(games)
    THEN [total_qwb |-> total_qwb, quality_wins |-> quality_wins]
    ELSE LET game == games[i]
             opponent == IF game.home_team = team_name THEN game.away_team ELSE game.home_team
         IN IF game.winner = team_name
               /\ opponent \in DOMAIN npis
               /\ RLeq(QUALITY_WIN_BASE, npis[opponent])
            THEN LET qwb_amount == RMul(RSub(npis[opponent], QUALITY_WIN_BASE), QUALITY_WIN_MULTIPLIER)
                 IN QWBLoop(games, i + 1, team_name, npis, RAdd(total_qwb, qwb_amount),
                            Append(quality_wins, [opponent |-> opponent,
                                                  opponent_npi |-> npis[opponent],
                                                  qwb_amount |-> qwb_amount]))
            ELSE QWBLoop(games, i + 1, team_name, npis, total_qwb, quality_wins)

\* variant: the list is not reset, the loop appends to what an earlier call left
calculate_quality_win_bonus_NoReset(D, team_name, npis) ==
    QWBLoop(Touch(D, team_name).rec[team_name].games, 1, team_name, npis, Zero,
            Touch(D, team_name).rec[team_name].quality_wins)

calculate_quality_win_bonus(D, team_name, npis) ==
    QWBLoop(Touch(D, team_name).rec[team_name].games, 1, team_name, npis, Zero, <<>>)

\* self.teams after calculate_quality_win_bonus(team_name, npis)
AfterQWB(D, team_name, npis) ==
    LET E == Touch(D, team_name)
    IN [rec |-> MapPut(E.rec, team_name,
                       [E.rec[team_name] EXCEPT !.quality_wins =
                           calculate_quality_win_bonus(D, team_name, npis).quality_wins]),
        keys |-> E.keys]

\* variant: the list is emptied and filled again in place
\* (team['quality_wins'].clear()), so every holder of it sees the new contents
ResultAfterQWB_ClearInPlace(R, team_name, quality_wins) ==
    LET v == R.value
    IN [R EXCEPT !.value =
           [i \in 1..Len(v) |->
               IF v[i].team = team_name /\ team_name \in R.shared
               THEN [v[i] EXCEPT !.quality_wins = quality_wins]
               ELSE v[i]]]

\* a result R returned earlier, after calculate_quality_win_bonus(team_name)
\* left the list quality_wins in the team record: team['quality_wins'] = []
\* binds a new list object, so R keeps the old list, with its contents, and
\* no longer shares it with the team record
ResultAfterQWB(R, team_name, quality_wins) ==
    [R EXCEPT !.shared = @ \ {team_name}]

(***************************************************************************)
(* calculate_npi                                                           *)
(***************************************************************************)
\* variant: the quality-win bonus is added inside the iteration
base_npi_WithBonus(D, team_name, npis) ==
    LET win_pct == calculate_winning_percentage(D, team_name)
        sos == calculate_strength_of_schedule(D, team_name, npis)
    IN RAdd(RAdd(RMul(RMul(WIN_PERCENTAGE_WEIGHT, win_pct), RInt(100)),
                 RMul(STRENGTH_OF_SCHEDULE_WEIGHT, sos)),
            calculate_quality_win_bonus(D, team_name, npis).total_qwb)

\* base_npi = WIN_PERCENTAGE_WEIGHT * win_pct * 100 + STRENGTH_OF_SCHEDULE_WEIGHT * sos
base_npi(D, team_name, npis) ==
    LET win_pct == calculate_winning_percentage(D, team_name)
        sos == calculate_strength_of_schedule(D, team_name, npis)
    IN RAdd(RMul(RMul(WIN_PERCENTAGE_WEIGHT, win_pct), RInt(100)),
            RMul(STRENGTH_OF_SCHEDULE_WEIGHT, sos))

\* current_npis[team_name] = win_pct * 100 for every team
RECURSIVE InitLoop(_, _, _)
InitLoop(D, i, current_npis) ==
    IF i > Len(D.keys) THEN current_npis
    ELSE InitLoop(D, i + 1,
                  MapPut(current_npis, D.keys[i],
                         RMul(calculate_winning_percentage(D, D.keys[i]), RInt(100))))

InitialNPIs(D) == InitLoop(D, 1, EmptyMap)

\* the inner for loop of a round, from team_names[i] on: each team's SOS is
\* read from current_npis, the dictionary the loop itself assigns to
RECURSIVE UpdateLoop(_, _, _)
UpdateLoop(D, i, current_npis) ==
    IF i > Len(D.keys) THEN current_npis
    ELSE UpdateLoop(D, i + 1,
                    MapPut(current_npis, D.keys[i], base_npi(D, D.keys[i], current_npis)))

RECURSIVE MaxChangeLoop(_, _, _, _, _)
MaxChangeLoop(team_names, i, current_npis, previous_npis, max_change) ==
    IF i > Len(team_names) THEN max_change
    ELSE MaxChangeLoop(team_names, i + 1, current_npis, previous_npis,
                       RMax(max_change,
                            RAbs(RSub(current_npis[team_names[i]], previous_npis[team_names[i]]))))

\* variant: the loop also stops on a change equal to the threshold
RECURSIVE Iterate_StopAtEqual(_, _, _, _, _, _)
Iterate_StopAtEqual(D, iteration, max_iterations, convergence_threshold, npis, log) ==
    IF iteration >= max_iterations
    THEN [current_npis |-> npis, rounds |-> log, converged |-> FALSE]
    ELSE LET previous_npis == npis
             current_npis == UpdateLoop(D, 1, npis)
             max_change == MaxChangeLoop(D.keys, 1, current_npis, previous_npis, Zero)
             log2 == Append(log, [previous_npis |-> previous_npis,
                                  current_npis |-> current_npis,
                                  max_change |-> max_change])
         IN IF RLeq(max_change, convergence_threshold)
            THEN [current_npis |-> current_npis, rounds |-> log2, converged |-> TRUE]
            ELSE Iterate_StopAtEqual(D, iteration + 1, max_iterations, convergence_threshold,
                                     current_npis, log2)

\* variant: the loop runs while iteration <= max_iterations, one round too many
RECURSIVE Iterate_OneMore(_, _, _, _, _, _)
Iterate_OneMore(D, iteration, max_iterations, convergence_threshold, npis, log) ==
    IF iteration > max_iterations
    THEN [current_npis |-> npis, rounds |-> log, converged |-> FALSE]
    ELSE LET previous_npis == npis
             current_npis == UpdateLoop(D, 1, npis)
             max_change == MaxChangeLoop(D.keys, 1, current_npis, previous_npis, Zero)
             log2 == Append(log, [previous_npis |-> previous_npis,
                                  current_npis |-> current_npis,
                                  max_change |-> max_change])
         IN IF RLess(max_change, convergence_threshold)
            THEN [current_npis |-> current_npis, rounds |-> log2, converged |-> TRUE]
            ELSE Iterate_OneMore(D, iteration + 1, max_iterations, convergence_threshold,
                                 current_npis, log2)

\* for iteration in range(max_iterations): ... break
RECURSIVE Iterate(_, _, _, _, _, _)
Iterate(D, iteration, max_iterations, convergence_threshold, npis, log) ==
    IF iteration >= max_iterations
    THEN [current_npis |-> npis, rounds |-> log, converged |-> FALSE]
    ELSE LET previous_npis == npis
             current_npis == UpdateLoop(D, 1, npis)
             max_change == MaxChangeLoop(D.keys, 1, current_npis, previous_npis, Zero)
             log2 == Append(log, [previous_npis |-> previous_npis,
                                  current_npis |-> current_npis,
                                  max_change |-> max_change])
         IN IF RLess(max_change, convergence_threshold)
            THEN [current_npis |-> current_npis, rounds |-> log2, converged |-> TRUE]
            ELSE Iterate(D, iteration + 1, max_iterations, convergence_threshold,
                         current_npis, log2)

\* the team_result dictionary of one team, before its rank is known
TeamResult(D, team_name, npis) ==
    LET team == D.rec[team_name]
        win_pct == calculate_winning_percentage(D, team_name)
        sos == calculate_strength_of_schedule(D, team_name, npis)
        q == calculate_quality_win_bonus(D, team_name, npis)
        final_npi == RAdd(RAdd(RMul(RMul(WIN_PERCENTAGE_WEIGHT, win_pct), RInt(100)),
                               RMul(STRENGTH_OF_SCHEDULE_WEIGHT, sos)),
                          q.total_qwb)
    IN [team |-> team_name,
        npi |-> final_npi,
        wins |-> team.wins,
        losses |-> team.losses,
        ties |-> team.ties,
        win_percentage |-> win_pct,
        strength_of_schedule |-> sos,
        quality_win_bonus |-> q.total_qwb,
        quality_wins_count |-> Len(q.quality_wins),
        quality_wins |-> q.quality_wins,
        total_games |-> team.wins + team.losses + team.ties,
        tournament_eligible |-> (team.wins >= MINIMUM_WINS)]

\* the second for loop over team_names, from index i on
RECURSIVE ResultsLoop(_, _, _, _)
ResultsLoop(D, i, npis, final_results) ==
    IF i > Len(D.keys) THEN [D |-> D, final_results |-> final_results]
    ELSE ResultsLoop(AfterQWB(D, D.keys[i], npis), i + 1, npis,
                     Append(final_results, TeamResult(D, D.keys[i], npis)))

\* variant: the sort is ascending (reverse=True forgotten)
RECURSIVE InsertPos_Ascending(_, _, _)
InsertPos_Ascending(sorted, x, j) ==
    IF j > Len(sorted) \/ RLess(x.npi, sorted[j].npi) THEN j
    ELSE InsertPos_Ascending(sorted, x, j + 1)

\* variant: the sort puts x before the elements whose npi equals its own
RECURSIVE InsertPos_BeforeEquals(_, _, _)
InsertPos_BeforeEquals(sorted, x, j) ==
    IF j > Len(sorted) \/ RLeq(sorted[j].npi, x.npi) THEN j
    ELSE InsertPos_BeforeEquals(sorted, x, j + 1)

\* list.sort(key=npi, reverse=True) is stable: x goes after every element
\* whose npi is not below its own
RECURSIVE InsertPos(_, _, _)
InsertPos(sorted, x, j) ==
    IF j > Len(sorted) \/ RLess(sorted[j].npi, x.npi) THEN j
    ELSE InsertPos(sorted, x, j + 1)

InsertSorted(sorted, x) ==
    LET j == InsertPos(sorted, x, 1)
    IN SubSeq(sorted, 1, j - 1) \o <<x>> \o SubSeq(sorted, j, Len(sorted))

RECURSIVE SortByNPI(_, _, _)
SortByNPI(final_results, i, sorted) ==
    IF i > Len(final_results) THEN sorted
    ELSE SortByNPI(final_results, i + 1, InsertSorted(sorted, final_results[i]))

\* team_result['rank'] = i, counting from 1
AddRankings(sorted) ==
    [i \in 1..Len(sorted) |-> [rank |-> i] @@ sorted[i]]

\* variant: the iteration starts from the final_npis of the previous
\* computation when there is one for these teams
calculate_npi_WarmStart(D, old_final_npis, max_iterations, convergence_threshold) ==
    IF Len(D.keys) = 0
    THEN [D |-> D, final_npis |-> old_final_npis, result |-> <<>>, rounds |-> <<>>]
    ELSE LET start == IF DOMAIN old_final_npis = DOMAIN D.rec THEN old_final_npis
                      ELSE InitialNPIs(D)
             it == Iterate(D, 0, max_iterations, convergence_threshold, start, <<>>)
             res == ResultsLoop(D, 1, it.current_npis, <<>>)
         IN [D |-> res.D,
             final_npis |-> it.current_npis,
             result |-> AddRankings(SortByNPI(res.final_results, 1, <<>>)),
             rounds |-> it.rounds]

calculate_npi(D, old_final_npis, max_iterations, convergence_threshold) ==
    IF Len(D.keys) = 0
    THEN [D |-> D, final_npis |-> old_final_npis, result |-> <<>>, rounds |-> <<>>]
    ELSE LET it == Iterate(D, 0, max_iterations, convergence_threshold, InitialNPIs(D), <<>>)
             res == ResultsLoop(D, 1, it.current_npis, <<>>)
         IN [D |-> res.D,
             final_npis |-> it.current_npis,
             result |-> AddRankings(SortByNPI(res.final_results, 1, <<>>)),
             rounds |-> it.rounds]

\* a result R returned earlier, after the second loop of a later calculate_npi
\* called calculate_quality_win_bonus for every team, from team_names[i] on
RECURSIVE ResultAfterNPI(_, _, _, _)
ResultAfterNPI(R, D, i, npis) ==
    IF i > Len(D.keys) THEN R
    ELSE ResultAfterNPI(ResultAfterQWB(R, D.keys[i],
                            calculate_quality_win_bonus(D, D.keys[i], npis).quality_wins),
                        AfterQWB(D, D.keys[i], npis), i + 1, npis)

(***************************************************************************)
(* get_team_summary                                                        *)
(***************************************************************************)
\* variant: the summary is computed as if final_npis had not been stored
get_team_summary_NoStoredNPIs(D, npis, team_name) ==
    IF team_name \notin DOMAIN D.rec
    THEN [D |-> D, result |-> [kind |-> "None"]]
    ELSE LET team == D.rec[team_name]
             q == calculate_quality_win_bonus(D, team_name, EmptyMap)
         IN [D |-> AfterQWB(D, team_name, EmptyMap),
             result |-> [kind |-> "summary",
                         team |-> team_name,
                         record |-> <<team.wins, team.losses, team.ties>>,
                         win_percentage |-> calculate_winning_percentage(D, team_name),
                         strength_of_schedule |->
                             calculate_strength_of_schedule(D, team_name, EmptyMap),
                         quality_win_bonus |-> q.total_qwb,
                         opponents |-> team.opponents,
                         quality_wins |-> q.quality_wins,
                         tournament_eligible |-> (team.wins >= MINIMUM_WINS)]]

get_team_summary(D, npis, team_name) ==
    IF team_name \notin DOMAIN D.rec
    THEN [D |-> D, result |-> [kind |-> "None"]]
    ELSE LET team == D.rec[team_name]
             q == calculate_quality_win_bonus(D, team_name, npis)
         IN [D |-> AfterQWB(D, team_name, npis),
             result |-> [kind |-> "summary",
                         team |-> team_name,
                         record |-> <<team.wins, team.losses, team.ties>>,
                         win_percentage |-> calculate_winning_percentage(D, team_name),
                         strength_of_schedule |->
                             calculate_strength_of_schedule(D, team_name, npis),
                         quality_win_bonus |-> q.total_qwb,
                         opponents |-> team.opponents,
                         quality_wins |-> q.quality_wins,
                         tournament_eligible |-> (team.wins >= MINIMUM_WINS)]]

(***************************************************************************)
(* The state machine: one action per public method of the engine.          *)
(***************************************************************************)
Engine == [rec |-> teams, keys |-> team_keys]

\* OfficialSoccerNPI(): no team record
NewEngine == [rec |-> EmptyMap, keys |-> <<>>]

\* a new engine after add_game for each of games, from games[i] on
RECURSIVE Replay(_, _, _)
Replay(D, games, i) ==
    IF i > Len(games) THEN D
    ELSE Replay(add_game(D, games[i][1], games[i][2], games[i][3], games[i][4]),
                games, i + 1)

RECURSIVE GameEntries(_, _)
GameEntries(D, i) ==
    IF i > Len(D.keys) THEN 0 ELSE Len(D.rec[D.keys[i]].games) + GameEntries(D, i + 1)

\* every game is appended to two lists
NumGames == GameEntries(Engine, 1) \div 2

\* convergence_threshold: every caller in the repository leaves it at the
\* default, 0.001
Thresholds == {<<1, 1000>>}

\* the dictionaries callers pass to the two methods that take one
SnapshotValues == [t \in Names |-> IF t = "A" THEN <<60, 1>>
                                   ELSE IF t = "B" THEN <<54, 1>> ELSE <<50, 1>>]
RECURSIVE Restrict(_, _)
Restrict(f, S) ==
    IF S = {} THEN EmptyMap
    ELSE LET t == CHOOSE x \in S : TRUE IN MapPut(Restrict(f, S \ {t}), t, f[t])

Snapshots == {Restrict(SnapshotValues, S) : S \in SUBSET Names}

IsCall(op) == last_call.op = op

Init ==
    /\ teams = EmptyMap
    /\ team_keys = <<>>
    /\ final_npis = EmptyMap
    /\ rankings = <<>>
    /\ rounds = <<>>
    /\ last_call = [op |-> "__init__"]
    /\ ret = [kind |-> "None"]
    /\ helper_calls = 0
    /\ ingested = <<>>
    /\ held = [value |-> <<>>, shared |-> {}]

AddGame(home_team, away_team, home_score, away_score) ==
    /\ \E D \in {add_game(Engine, home_team, away_team, home_score, away_score)} :
          /\ teams' = D.rec
          /\ team_keys' = D.keys
    /\ last_call' = [op |-> "add_game", home_team |-> home_team, away_team |-> away_team,
                     home_score |-> home_score, away_score |-> away_score,
                     raised |-> FALSE]
    /\ ret' = [kind |-> "None"]
    /\ ingested' = Append(ingested, <<home_team, away_team, home_score, away_score>>)
    /\ UNCHANGED <<final_npis, rankings, rounds, helper_calls, held>>

CalculateNPI(max_iterations, convergence_threshold) ==
    /\ \E r \in {calculate_npi(Engine, final_npis, max_iterations, convergence_threshold)} :
          /\ teams' = r.D.rec
          /\ team_keys' = r.D.keys
          /\ final_npis' = r.final_npis
          /\ rankings' = r.result
          /\ rounds' = r.rounds
          /\ held' = ResultAfterNPI(held, Engine, 1, r.final_npis)
    /\ last_call' = [op |-> "calculate_npi", max_iterations |-> max_iterations,
                     convergence_threshold |-> convergence_threshold, raised |-> FALSE]
    /\ ret' = [kind |-> "None"]
    /\ UNCHANGED <<helper_calls, ingested>>

GetTeamSummary(team_name) ==
    /\ \E r \in {get_team_summary(Engine, final_npis, team_name)} :
          /\ teams' = r.D.rec
          /\ team_keys' = r.D.keys
          /\ ret' = r.result
          /\ held' = IF team_name \in DOMAIN teams
                     THEN ResultAfterQWB(held, team_name, r.result.quality_wins)
                     ELSE held
    /\ last_call' = [op |-> "get_team_summary", team_name |-> team_name, raised |-> FALSE]
    /\ UNCHANGED <<final_npis, rankings, rounds, helper_calls, ingested>>

CalculateWinningPercentage(team_name) ==
    /\ helper_calls < MaxHelperCalls
    /\ helper_calls' = helper_calls + 1
    /\ \E D \in {Touch(Engine, team_name)} :
          /\ teams' = D.rec
          /\ team_keys' = D.keys
    /\ ret' = [kind |-> "number", value |-> calculate_winning_percentage(Engine, team_name)]
    /\ last_call' = [op |-> "calculate_winning_percentage", team_name |-> team_name,
                     raised |-> FALSE]
    /\ UNCHANGED <<final_npis, rankings, rounds, ingested, held>>

CalculateStrengthOfSchedule(team_name, current_npis) ==
    /\ helper_calls < MaxHelperCalls
    /\ helper_calls' = helper_calls + 1
    /\ \E D \in {Touch(Engine, team_name)} :
          /\ teams' = D.rec
          /\ team_keys' = D.keys
    /\ ret' = [kind |-> "number",
               value |-> calculate_strength_of_schedule(Engine, team_name, current_npis)]
    /\ last_call' = [op |-> "calculate_strength_of_schedule", team_name |-> team_name,
                     current_npis |-> current_npis, raised |-> FALSE]
    /\ UNCHANGED <<final_npis, rankings, rounds, ingested, held>>

CalculateQualityWinBonus(team_name, npis) ==
    /\ helper_calls < MaxHelperCalls
    /\ helper_calls' = helper_calls + 1
    /\ \E D \in {AfterQWB(Engine, team_name, npis)} :
          /\ teams' = D.rec
          /\ team_keys' = D.keys
    /\ \E q \in {calculate_quality_win_bonus(Engine, team_name, npis)} :
          /\ ret' = [kind |-> "number", value |-> q.total_qwb]
          /\ held' = ResultAfterQWB(held, team_name, q.quality_wins)
    /\ last_call' = [op |-> "calculate_quality_win_bonus", team_name |-> team_name,
                     final_npis |-> npis, raised |-> FALSE]
    /\ UNCHANGED <<final_npis, rankings, rounds, ingested>>

Next ==
    \/ \E h \in Names, a \in Names, sc \in ScorePairs :
          NumGames < MaxGames /\ AddGame(h, a, sc[1], sc[2])
    \/ \E m \in 0..MaxIter, th \in Thresholds : CalculateNPI(m, th)
    \/ \E t \in Names : GetTeamSummary(t)

Spec == Init /\ [][Next]_vars

\* the helper methods called directly, with dictionaries of the caller's choice
NextFn ==
    \/ \E h \in Names, a \in Names, sc \in ScorePairs :
          NumGames < MaxGames /\ AddGame(h, a, sc[1], sc[2])
    \/ \E t \in Names : CalculateWinningPercentage(t)
    \/ \E t \in Names, s \in Snapshots : CalculateStrengthOfSchedule(t, s)
    \/ \E t \in Names, s \in Snapshots : CalculateQualityWinBonus(t, s)

SpecFn == Init /\ [][NextFn]_vars

(***************************************************************************)
(* A season: the games are ingested first and the ranking is computed      *)
(* afterwards (scripts/daily_npi_calculator.py, calculate_current_rankings)*)
(* The season is played in blocks: B beats C, then A beats B, then A and B *)
(* tie, each any number of times.                                          *)
(***************************************************************************)
SeasonFixtures == << <<"B", "C", 1, 0>>, <<"A", "B", 1, 0>>, <<"A", "B", 1, 1>> >>

\* 0.0, under which no round converges, and the default
SeasonThresholds == {Zero, <<1, 1000>>}

Ingesting == last_call.op \in {"__init__", "add_game"}

\* fixture j may follow the games ingested so far
InBlockOrder(j) ==
    \A k \in 1..Len(ingested) : \E i \in 1..j : ingested[k] = SeasonFixtures[i]

NextSeason ==
    \/ \E j \in 1..Len(SeasonFixtures) :
          /\ Ingesting
          /\ InBlockOrder(j)
          /\ NumGames < MaxSeasonGames
          /\ AddGame(SeasonFixtures[j][1], SeasonFixtures[j][2],
                     SeasonFixtures[j][3], SeasonFixtures[j][4])
    \/ \E m \in 0..MaxIter, th \in SeasonThresholds : CalculateNPI(m, th)
    \/ \E t \in Names : GetTeamSummary(t)

SpecSeason == Init /\ [][NextSeason]_vars

(***************************************************************************)
(* A caller that uses the whole interface: it calls the helpers itself,    *)
(* keeps the result of a ranking and writes to it.                         *)
(***************************************************************************)
\* B and C tie, A beats B
CallerFixtures == {<<"B", "C", 1, 1>>, <<"A", "B", 1, 0>>}

\* what the caller appends to a quality_wins list of the result
CallerItem == [opponent |-> "X", opponent_npi |-> Zero, qwb_amount |-> Zero]

RECURSIVE Occurrences(_, _)
Occurrences(list, x) ==
    IF list = <<>> THEN 0
    ELSE (IF Head(list) = x THEN 1 ELSE 0) + Occurrences(Tail(list), x)

\* how many times the caller wrote to the result, from record i on
RECURSIVE Writes(_, _)
Writes(result, i) ==
    IF i > Len(result) THEN 0
    ELSE Occurrences(result[i].quality_wins, CallerItem) + Writes(result, i + 1)

\* first = engine.calculate_npi(): the caller keeps the result just returned;
\* each record holds the list the second loop has just bound in the team record
KeepResult ==
    /\ IsCall("calculate_npi")
    /\ rankings # <<>>
    /\ held' = [value |-> rankings, shared |-> DOMAIN teams]
    /\ last_call' = [op |-> "keep_result", raised |-> FALSE]
    /\ UNCHANGED <<teams, team_keys, final_npis, rankings, rounds, ret, helper_calls,
                   ingested>>

\* first[i]['quality_wins'].append(item), by the caller: the list is one
\* object, so the team record sees the item while it holds that list
MutateResult(i) ==
    /\ Writes(held.value, 1) < MaxWrites
    /\ held' = [held EXCEPT !.value[i].quality_wins = Append(@, CallerItem)]
    /\ teams' = IF held.value[i].team \in held.shared
                THEN Push(Engine, held.value[i].team, "quality_wins", CallerItem).rec
                ELSE teams
    /\ last_call' = [op |-> "mutate_result", position |-> i, raised |-> FALSE]
    /\ UNCHANGED <<team_keys, final_npis, rankings, rounds, ret, helper_calls, ingested>>

NextCaller ==
    \/ \E g \in CallerFixtures :
          NumGames < MaxGames /\ AddGame(g[1], g[2], g[3], g[4])
    \/ \E m \in 0..MaxIter, th \in Thresholds : CalculateNPI(m, th)
    \/ \E t \in Names : GetTeamSummary(t)
    \/ \E t \in Names : CalculateWinningPercentage(t)
    \/ \E t \in Names : CalculateStrengthOfSchedule(t, final_npis)
    \/ \E t \in Names : CalculateQualityWinBonus(t, final_npis)
    \/ KeepResult
    \/ \E i \in 1..Len(held.value) : MutateResult(i)

SpecCaller == Init /\ [][NextCaller]_vars

(***************************************************************************)
(* Vocabulary of the properties.                                           *)
(***************************************************************************)
\* a team's record before a step, the default standing for an absent one
Before(t) == IF t \in DOMAIN teams THEN teams[t] ELSE DefaultTeam

\* the position of a team among the keys of self.teams
Pos(t) == CHOOSE i \in 1..Len(team_keys) : team_keys[i] = t

(***************************************************************************)
(* C1.  In every round of calculate_npi each team's new estimate is        *)
(* computed from the estimates as they stood at the start of the round     *)
(* (previous_npis): a synchronous update.                                  *)
(***************************************************************************)
C1_SynchronousUpdate ==
    IsCall("calculate_npi") =>
        \A k \in 1..Len(rounds) : \A t \in DOMAIN teams :
            rounds[k].current_npis[t] = base_npi(Engine, t, rounds[k].previous_npis)

(***************************************************************************)
(* C2.  add_game with home_team # away_team creates both team records if   *)
(* absent, adds one to exactly one counter of each side according to the   *)
(* score, appends each side to the other's opponents, and changes nothing  *)
(* of any third team.                                                      *)
(***************************************************************************)
CountersAfter(t, w, l, ti) ==
    /\ teams'[t].wins = Before(t).wins + w
    /\ teams'[t].losses = Before(t).losses + l
    /\ teams'[t].ties = Before(t).ties + ti

C2_AddGameStep ==
    LET h == last_call'.home_team
        a == last_call'.away_team
        hs == last_call'.home_score
        as == last_call'.away_score
    IN (last_call'.op = "add_game" /\ h # a) =>
        /\ DOMAIN teams' = DOMAIN teams \cup {h, a}
        /\ hs > as => CountersAfter(h, 1, 0, 0) /\ CountersAfter(a, 0, 1, 0)
        /\ as > hs => CountersAfter(a, 1, 0, 0) /\ CountersAfter(h, 0, 1, 0)
        /\ hs = as => CountersAfter(h, 0, 0, 1) /\ CountersAfter(a, 0, 0, 1)
        /\ teams'[h].opponents = Append(Before(h).opponents, a)
        /\ teams'[a].opponents = Append(Before(a).opponents, h)
        /\ \A t \in DOMAIN teams' \ {h, a} : t \in DOMAIN teams /\ teams'[t] = teams[t]

C2_AddGameEffect == [][C2_AddGameStep]_vars

\* a tie between two teams ingested while a third team has a record
C2_Witness ==
    /\ IsCall("add_game")
    /\ last_call.home_team # last_call.away_team
    /\ last_call.home_score = last_call.away_score
    /\ Cardinality(DOMAIN teams) = 3
    /\ teams[last_call.home_team].ties = 1
    /\ teams[last_call.away_team].ties = 1

(***************************************************************************)
(* C3.  Every team record satisfies                                        *)
(* wins + losses + ties = len(opponents) = len(games).                     *)
(***************************************************************************)
C3_RecordInvariant ==
    \A t \in DOMAIN teams :
        /\ teams[t].wins + teams[t].losses + teams[t].ties = Len(teams[t].opponents)
        /\ Len(teams[t].opponents) = Len(teams[t].games)

\* a summary asked after a ranking of a team that played two games
C3_Witness ==
    /\ IsCall("get_team_summary")
    /\ rankings # <<>>
    /\ \E t \in DOMAIN teams : Len(teams[t].games) = 2 /\ teams[t].wins = 1 /\ teams[t].ties = 1

(***************************************************************************)
(* C4.  add_game with home_team = away_team fails with a validation error  *)
(* and leaves every team record and the set of team names as they were.    *)
(***************************************************************************)
C4_SelfGameStep ==
    (last_call'.op = "add_game" /\ last_call'.home_team = last_call'.away_team) =>
        /\ last_call'.raised
        /\ teams' = teams
        /\ team_keys' = team_keys

C4_SelfGameRejected == [][C4_SelfGameStep]_vars

(***************************************************************************)
(* C5.  add_game with a negative score fails with a validation error and   *)
(* leaves the engine unchanged: no record created, no counter incremented. *)
(***************************************************************************)
C5_NegativeScoreStep ==
    (last_call'.op = "add_game"
        /\ (last_call'.home_score < 0 \/ last_call'.away_score < 0)) =>
        /\ last_call'.raised
        /\ teams' = teams
        /\ team_keys' = team_keys
        /\ final_npis' = final_npis

C5_NegativeScoreRejected == [][C5_NegativeScoreStep]_vars

(***************************************************************************)
(* Sums and means stated over sets of list positions, for the properties   *)
(* of the three computations.                                              *)
(***************************************************************************)
\* the sum of f[i] over the positions i in I
RECURSIVE SumValues(_, _)
SumValues(I, f) ==
    IF I = {} THEN Zero
    ELSE LET i == CHOOSE x \in I : TRUE IN RAdd(f[i], SumValues(I \ {i}, f))

\* (W + T/3) / (W + L + T), and 0 for a team without a game
WinPctValue(team) ==
    LET n == team.wins + team.losses + team.ties
    IN IF n = 0 THEN Zero ELSE Rat(3 * team.wins + team.ties, 3 * n)

\* the positions of the opponents list whose team is a key of snap
KnownPositions(team, snap) ==
    {i \in 1..Len(team.opponents) : team.opponents[i] \in DOMAIN snap}

\* the mean of snap over those positions, 0 when there is none
MeanOfKnown(team, snap) ==
    LET K == KnownPositions(team, snap)
    IN IF K = {} THEN Zero
       ELSE RDivInt(SumValues(K, [i \in K |-> snap[team.opponents[i]]]), Cardinality(K))

\* the positions of the games the team won over an opponent at or above 54.00
QualifyingPositions(team_name, team, snap) ==
    {i \in 1..Len(team.games) :
        /\ team.games[i].winner = team_name
        /\ team.opponents[i] \in DOMAIN snap
        /\ RLeq(<<54, 1>>, snap[team.opponents[i]])}

\* the sum of (opponent NPI - 54.00) * 0.5 over those positions
BonusSum(team_name, team, snap) ==
    LET Q == QualifyingPositions(team_name, team, snap)
    IN SumValues(Q, [i \in Q |-> RMul(RSub(snap[team.opponents[i]], <<54, 1>>), <<1, 2>>)])

(***************************************************************************)
(* C6.  calculate_winning_percentage returns (W + T/3) / (W + L + T) when  *)
(* the team has played, 0.0 when it has not; the value lies in [0, 1].     *)
(***************************************************************************)
IsWinPct(v, team) ==
    LET n == team.wins + team.losses + team.ties
    IN /\ n = 0 => v = Zero
       /\ n > 0 => v[1] * (3 * n) = (3 * team.wins + team.ties) * v[2]
       /\ 0 <= v[1] /\ v[1] <= v[2]

C6_WinningPercentage ==
    /\ IsCall("calculate_winning_percentage") =>
           IsWinPct(ret.value, teams[last_call.team_name])
    /\ \A t \in DOMAIN teams : IsWinPct(calculate_winning_percentage(Engine, t), teams[t])

\* the method called for a team with one win and one tie: (1 + 1/3) / 2 = 2/3
C6_Witness ==
    /\ IsCall("calculate_winning_percentage")
    /\ teams[last_call.team_name].wins = 1
    /\ teams[last_call.team_name].ties = 1
    /\ teams[last_call.team_name].losses = 0
    /\ ret.value = <<2, 3>>

(***************************************************************************)
(* C7.  calculate_strength_of_schedule returns the mean of the snapshot    *)
(* over the entries of the opponents list that are keys of the snapshot,   *)
(* one term per game; absent opponents count in neither the sum nor the    *)
(* denominator; 0.0 when no opponent is in the snapshot.                   *)
(***************************************************************************)
C7_StrengthOfSchedule ==
    IsCall("calculate_strength_of_schedule") =>
        ret.value = MeanOfKnown(teams[last_call.team_name], last_call.current_npis)

\* a team with two entries in its opponents list, the first a key of the
\* snapshot and the second not: the result is the first one's NPI, not half of it
C7_Witness ==
    /\ IsCall("calculate_strength_of_schedule")
    /\ LET team == teams[last_call.team_name]
           snap == last_call.current_npis
       IN /\ Len(team.opponents) = 2
          /\ team.opponents[1] \in DOMAIN snap
          /\ team.opponents[2] \notin DOMAIN snap
          /\ ret.value = snap[team.opponents[1]]
          /\ ret.value # Zero

(***************************************************************************)
(* C8.  The quality-win bonus is the sum, over the games whose winner is   *)
(* the team, of (opponent NPI - 54.00) * 0.5 for the opponents whose NPI   *)
(* in the map is at or above 54.00; an opponent at exactly 54.00 qualifies *)
(* with bonus 0; ties, losses and wins over weaker opponents add nothing.  *)
(***************************************************************************)
C8_QualityWinBonus ==
    IsCall("calculate_quality_win_bonus") =>
        LET team == teams[last_call.team_name]
        IN /\ ret.value = BonusSum(last_call.team_name, team, last_call.final_npis)
           /\ Len(team.quality_wins) =
                  Cardinality(QualifyingPositions(last_call.team_name, team,
                                                  last_call.final_npis))

\* two wins, one over an opponent at 60.00 and one over an opponent at 54.00
C8_Witness ==
    /\ IsCall("calculate_quality_win_bonus")
    /\ teams[last_call.team_name].wins = 2
    /\ ret.value = <<3, 1>>
    /\ Len(teams[last_call.team_name].quality_wins) = 2
    /\ \E i \in 1..2 : teams[last_call.team_name].quality_wins[i].qwb_amount = Zero

(***************************************************************************)
(* C9.  Every reported npi is 0.20 * win_percentage * 100 + 0.80 * SOS +   *)
(* QWB, both taken on final_npis; the bonus enters in that pass only:      *)
(* neither final_npis nor any estimate of the iteration contains one.      *)
(***************************************************************************)
\* 0.20 * WinPct * 100 + 0.80 * SOS, no bonus
BonusFree(t, snap) ==
    RAdd(RMul(<<20, 1>>, WinPctValue(teams[t])),
         RMul(<<4, 5>>, MeanOfKnown(teams[t], snap)))

\* what team t reads in round k: the new value of the teams before it in
\* iteration order, the old value of the others
Seen(k, t) ==
    [u \in DOMAIN teams |-> IF Pos(u) < Pos(t) THEN rounds[k].current_npis[u]
                            ELSE rounds[k].previous_npis[u]]

SameMap(f, g) == DOMAIN f = DOMAIN g /\ \A x \in DOMAIN f : f[x] = g[x]

StartEstimates == [t \in DOMAIN teams |-> RMul(<<100, 1>>, WinPctValue(teams[t]))]

\* the estimates the loop ended with
LastEstimates == IF Len(rounds) = 0 THEN StartEstimates
                 ELSE rounds[Len(rounds)].current_npis

C9_BonusOnlyInFinalPass ==
    (IsCall("calculate_npi") /\ DOMAIN teams # {}) =>
        /\ \A k \in 1..Len(rounds) :
              /\ SameMap(rounds[k].previous_npis,
                         IF k = 1 THEN StartEstimates ELSE rounds[k - 1].current_npis)
              /\ \A t \in DOMAIN teams :
                     rounds[k].current_npis[t] = BonusFree(t, Seen(k, t))
        /\ SameMap(final_npis, LastEstimates)
        /\ \A i \in 1..Len(rankings) :
              LET t == rankings[i].team
              IN rankings[i].npi = RAdd(BonusFree(t, final_npis),
                                        BonusSum(t, teams[t], final_npis))

\* a ranking computed in at least one round in which a team earned a bonus
C9_Witness ==
    /\ IsCall("calculate_npi")
    /\ Len(rounds) >= 1
    /\ \E i \in 1..Len(rankings) : rankings[i].quality_win_bonus[1] > 0

(***************************************************************************)
(* C10.  For every set of ingested games and every max_iterations >= 0,    *)
(* calculate_npi runs at most max_iterations rounds and returns a complete *)
(* ranked result; when no round went below the threshold the result is     *)
(* built from the last computed estimates; never an error, never an empty  *)
(* sequence.                                                               *)
(***************************************************************************)
NoRoundConverged ==
    \A k \in 1..Len(rounds) : ~RLess(rounds[k].max_change, last_call.convergence_threshold)

RankedTeams == {rankings[i].team : i \in 1..Len(rankings)}

C10_Bounded ==
    /\ ~last_call.raised
    /\ Len(rounds) <= last_call.max_iterations
    /\ Len(rankings) = Cardinality(DOMAIN teams)
    /\ RankedTeams = DOMAIN teams
    /\ NoRoundConverged =>
          /\ DOMAIN teams # {} => Len(rounds) = last_call.max_iterations
          /\ SameMap(final_npis, LastEstimates) \/ DOMAIN teams = {}
          /\ \A i \in 1..Len(rankings) :
                rankings[i].strength_of_schedule =
                    MeanOfKnown(teams[rankings[i].team], LastEstimates)

\* the claim as made: the result is never the empty sequence
C10_NeverEmpty ==
    IsCall("calculate_npi") => C10_Bounded /\ rankings # <<>>

\* amended: the result is empty exactly when the engine has no team record,
\* and then no round is run
C10_BoundedRounds ==
    IsCall("calculate_npi") =>
        /\ C10_Bounded
        /\ DOMAIN teams # {} => rankings # <<>>
        /\ DOMAIN teams = {} => rankings = <<>> /\ rounds = <<>>

\* two rounds allowed, two rounds run, neither below the threshold, three
\* teams ranked
C10_Witness ==
    /\ IsCall("calculate_npi")
    /\ last_call.max_iterations = 2
    /\ Len(rounds) = 2
    /\ NoRoundConverged
    /\ Len(rankings) = 3

(***************************************************************************)
(* C11.  The iteration stops right after the first round whose maximum     *)
(* absolute change over all teams, between the estimates at the start and  *)
(* at the end of the round, is strictly below convergence_threshold; a     *)
(* round whose maximum change is equal to or above the threshold is        *)
(* followed by another round unless max_iterations rounds were run.        *)
(***************************************************************************)
\* |current - previous| of team t in round k
ChangeOf(k, t) == RAbs(RSub(rounds[k].current_npis[t], rounds[k].previous_npis[t]))

\* m is the largest change of round k over all teams
IsMaxChange(m, k) ==
    /\ \A t \in DOMAIN teams : RLeq(ChangeOf(k, t), m)
    /\ \E t \in DOMAIN teams : ChangeOf(k, t) = m

Below(k) == RLess(rounds[k].max_change, last_call.convergence_threshold)

C11_StopsAtFirstConvergedRound ==
    (IsCall("calculate_npi") /\ DOMAIN teams # {}) =>
        /\ \A k \in 1..Len(rounds) : IsMaxChange(rounds[k].max_change, k)
        \* no round follows a round below the threshold
        /\ \A k \in 1..Len(rounds) : Below(k) => k = Len(rounds)
        \* a round at or above the threshold is the last one only at the cap
        /\ \A k \in 1..Len(rounds) :
              (~Below(k) /\ k < last_call.max_iterations) => k < Len(rounds)
        /\ last_call.max_iterations > 0 => Len(rounds) > 0

\* two rounds allowed, and the first one, with no change at all, is below the
\* default threshold: it is the only round
C11_Witness ==
    /\ IsCall("calculate_npi")
    /\ last_call.max_iterations = 2
    /\ last_call.convergence_threshold = <<1, 1000>>
    /\ Len(rounds) = 1
    /\ Below(1)

(***************************************************************************)
(* C12.  The sequence calculate_npi returns has exactly one record per     *)
(* team record, npi never increases from one position to the next, and the *)
(* record at position i carries rank i: the ranks are 1..N.                *)
(***************************************************************************)
C12_RankedOrder ==
    IsCall("calculate_npi") =>
        /\ Len(rankings) = Cardinality(DOMAIN teams)
        /\ \A t \in DOMAIN teams :
              Cardinality({i \in 1..Len(rankings) : rankings[i].team = t}) = 1
        /\ \A i \in 1..Len(rankings) - 1 : RLeq(rankings[i + 1].npi, rankings[i].npi)
        /\ \A i \in 1..Len(rankings) : rankings[i].rank = i

\* three teams with three different values, the best of them the team whose
\* record was created last
C12_Witness ==
    /\ IsCall("calculate_npi")
    /\ Len(rankings) = 3
    /\ RLess(rankings[2].npi, rankings[1].npi)
    /\ RLess(rankings[3].npi, rankings[2].npi)
    /\ rankings[1].team = team_keys[3]

(***************************************************************************)
(* C13.  calculate_npi called twice in a row, with no add_game in between  *)
(* and the same max_iterations and convergence_threshold, returns the same *)
(* sequence both times: same order, same rank, same value of every field.  *)
(***************************************************************************)
\* the call just made, made once more on the engine as it is now
CalledAgain ==
    calculate_npi(Engine, final_npis, last_call.max_iterations,
                  last_call.convergence_threshold)

C13_Idempotent ==
    IsCall("calculate_npi") => CalledAgain.result = rankings

\* a ranking of three teams after a round that did not converge, with a
\* quality win in it; the second call ends in this very state
C13_Witness ==
    /\ IsCall("calculate_npi")
    /\ Len(rankings) = 3
    /\ Len(rounds) = 1
    /\ ~Below(1)
    /\ \E i \in 1..3 : rankings[i].quality_wins_count > 0
    /\ CalledAgain.D = Engine
    /\ CalledAgain.final_npis = final_npis

(***************************************************************************)
(* C14.  No mutable value reachable from the result of calculate_npi is    *)
(* shared with the engine: when the caller writes to a returned record,    *)
(* its quality_wins list included, every team record and final_npis stay   *)
(* as they were.                                                           *)
(***************************************************************************)
C14_MutateStep ==
    last_call'.op = "mutate_result" =>
        /\ teams' = teams
        /\ team_keys' = team_keys
        /\ final_npis' = final_npis

C14_ResultNotShared == [][C14_MutateStep]_vars

(***************************************************************************)
(* C15.  For every game record add_game created, exactly one of these      *)
(* holds: the winner is the home team, the winner is the away team, the    *)
(* game is a tie (winner is None and is_tie is true); and the winner is    *)
(* the side with the strictly higher score.                                *)
(***************************************************************************)
GameRecords ==
    UNION {{teams[t].games[i] : i \in 1..Len(teams[t].games)} : t \in DOMAIN teams}

ExactlyOne(a, b, c) == (a /\ ~b /\ ~c) \/ (~a /\ b /\ ~c) \/ (~a /\ ~b /\ c)

C15_ExactlyOneOutcome ==
    \A game \in GameRecords :
        /\ ExactlyOne(game.winner = game.home_team,
                      game.winner = game.away_team,
                      game.winner = None /\ game.is_tie)
        /\ game.home_score > game.away_score => game.winner = game.home_team
        /\ game.away_score > game.home_score => game.winner = game.away_team
        /\ game.home_score = game.away_score => game.winner = None

(***************************************************************************)
(* C16.  For every result of calculate_npi on any set of ingested games,   *)
(* every team's reported npi, quality-win bonus included, lies between 0   *)
(* and 100 inclusive.                                                      *)
(***************************************************************************)
Hundred == RInt(100)

Within0And100(x) == RLeq(Zero, x) /\ RLeq(x, Hundred)

C17_Eligibility ==
    /\ IsCall("calculate_npi") =>
           \A i \in 1..Len(rankings) :
               rankings[i].tournament_eligible <=> teams[rankings[i].team].wins >= 8
    /\ (IsCall("get_team_summary") /\ ret.kind = "summary") =>
           (ret.tournament_eligible <=> teams[last_call.team_name].wins >= 8)

\* the summary of a team with exactly 8 wins, after a ranking in which the
\* team, with 8 wins, is eligible
C17_Witness ==
    /\ IsCall("get_team_summary")
    /\ ret.kind = "summary"
    /\ teams[last_call.team_name].wins = 8
    /\ ret.tournament_eligible
    /\ \E i \in 1..Len(rankings) :
          /\ rankings[i].team = last_call.team_name
          /\ rankings[i].wins = 8
          /\ rankings[i].tournament_eligible

(***************************************************************************)
(* C18.  calculate_npi on an engine into which no game has been ingested   *)
(* returns an empty sequence, raises no error, and leaves the engine with  *)
(* no team record and an empty final_npis.                                 *)
(***************************************************************************)
C18_EmptyEngine ==
    (IsCall("calculate_npi") /\ ingested = <<>>) =>
        /\ ~last_call.raised
        /\ rankings = <<>>
        /\ DOMAIN teams = {}
        /\ DOMAIN final_npis = {}

(***************************************************************************)
(* C19.  The result of calculate_npi depends only on the games ingested so *)
(* far, in their order: an engine that ingested games, ran calculate_npi   *)
(* and get_team_summary any number of times, ingested more games and ran   *)
(* calculate_npi returns what a new engine returns after ingesting all the *)
(* games and running calculate_npi once.                                   *)
(***************************************************************************)
OnNewEngine ==
    calculate_npi(Replay(NewEngine, ingested, 1), EmptyMap, last_call.max_iterations,
                  last_call.convergence_threshold)

\* no helper was called by the caller itself
C19_OnlyGamesMatter ==
    (IsCall("calculate_npi") /\ helper_calls = 0) => rankings = OnNewEngine.result

\* a ranking of three teams with a quality win, on an engine that had ranked
\* two teams (the result the caller kept) before the second game came in
C19_Witness ==
    /\ IsCall("calculate_npi")
    /\ helper_calls = 0
    /\ Len(ingested) = 2
    /\ Len(held.value) = 2
    /\ Len(rankings) = 3
    /\ \E i \in 1..3 : rankings[i].quality_wins_count > 0

(***************************************************************************)
(* C20.  A ranked result calculate_npi has returned is never changed by a  *)
(* later operation of the engine: after any later add_game, calculate_npi  *)
(* or get_team_summary every field of every record of it, the contents of  *)
(* its quality_wins lists included, is what it was when it was returned.   *)
(***************************************************************************)
EngineOperations ==
    {"add_game", "calculate_npi", "get_team_summary", "calculate_winning_percentage",
     "calculate_strength_of_schedule", "calculate_quality_win_bonus"}

C20_EngineStep ==
    last_call'.op \in EngineOperations => held'.value = held.value

C20_ResultNeverChanged == [][C20_EngineStep]_vars

\* the caller holds a result with a quality win in it, untouched by the
\* caller, and a later calculate_npi, which has bound new lists in every team
\* record, found no quality win for that team
C20_Witness ==
    /\ IsCall("calculate_npi")
    /\ held.shared = {}
    /\ Writes(held.value, 1) = 0
    /\ \E i \in 1..Len(held.value), j \in 1..Len(rankings) :
          /\ held.value[i].team = rankings[j].team
          /\ held.value[i].quality_wins # <<>>
          /\ rankings[j].quality_wins = <<>>

(***************************************************************************)
(* C21.  Among teams whose reported npi values are exactly equal,          *)
(* calculate_npi orders them by the order in which their team records were *)
(* created during ingestion: the team created earlier gets the smaller     *)
(* rank.  The keys of self.teams are in the order the game sequence        *)
(* creates them, so the order among exact ties is a function of the games. *)
(***************************************************************************)
C21_TiesInCreationOrder ==
    IsCall("calculate_npi") =>
        /\ team_keys = Replay(NewEngine, ingested, 1).keys
        /\ \A i \in 1..Len(rankings), j \in 1..Len(rankings) :
              (i < j /\ rankings[i].npi = rankings[j].npi) =>
                  Pos(rankings[i].team) < Pos(rankings[j].team)

\* the first game was won by the away team, whose record was therefore
\* created first; the home team won the return game, the two teams are
\* reported with the same npi and the away team of the first game is ranked
\* first
C21_Witness ==
    /\ IsCall("calculate_npi")
    /\ Len(ingested) = 2
    /\ ingested[1][1] # ingested[1][2]
    /\ ingested[1][4] > ingested[1][3]
    /\ Len(rankings) = 2
    /\ rankings[1].npi = rankings[2].npi
    /\ rankings[1].team = ingested[1][2]
    /\ rankings[2].team = ingested[1][1]
    /\ RLess(Zero, rankings[1].npi)

(***************************************************************************)
(* C22.  After calculate_npi, with no add_game in between,                 *)
(* get_team_summary(t) returns for every team t the win_percentage,        *)
(* strength_of_schedule, quality_win_bonus, quality_wins and               *)
(* tournament_eligible of t's record in the ranking just returned, and     *)
(* None for a name that has no team record.                                *)
(***************************************************************************)
\* the games counted in the latest ranking, from record i on
RECURSIVE GamesRanked(_)
GamesRanked(i) ==
    IF i > Len(rankings) THEN 0 ELSE rankings[i].total_games + GamesRanked(i + 1)

\* no add_game since the latest calculate_npi: every game adds one to a
\* counter of each of its two sides, and the ranking counts them all
RankingIsCurrent == GamesRanked(1) = 2 * Len(ingested)

C22_SummaryAgreesWithRanking ==
    (IsCall("get_team_summary") /\ RankingIsCurrent) =>
        LET t == last_call.team_name
        IN IF t \in DOMAIN teams
           THEN /\ ret.kind = "summary"
                /\ \E i \in 1..Len(rankings) :
                      /\ rankings[i].team = t
                      /\ ret.win_percentage = rankings[i].win_percentage
                      /\ ret.strength_of_schedule = rankings[i].strength_of_schedule
                      /\ ret.quality_win_bonus = rankings[i].quality_win_bonus
                      /\ ret.quality_wins = rankings[i].quality_wins
                      /\ ret.tournament_eligible = rankings[i].tournament_eligible
           ELSE ret.kind = "None"

\* the summary of a team ranked with a quality win and a strength of
\* schedule above zero, asked while another name has no record
C22_Witness ==
    /\ IsCall("get_team_summary")
    /\ RankingIsCurrent
    /\ ret.kind = "summary"
    /\ ret.quality_wins # <<>>
    /\ RLess(Zero, ret.quality_win_bonus)
    /\ RLess(Zero, ret.strength_of_schedule)
    /\ Names \ DOMAIN teams # {}

(***************************************************************************)
(* C23.  Team records are created only by add_game: a call of              *)
(* calculate_winning_percentage, calculate_strength_of_schedule,           *)
(* calculate_quality_win_bonus, get_team_summary or calculate_npi, with    *)
(* any team name, leaves the set of team records and every team's wins,    *)
(* losses, ties, opponents and games unchanged, and calculate_npi ranks    *)
(* exactly the teams that appeared in ingested games.                      *)
(***************************************************************************)
ReadOperations ==
    {"calculate_winning_percentage", "calculate_strength_of_schedule",
     "calculate_quality_win_bonus", "get_team_summary", "calculate_npi"}

\* the names that appear in an ingested game
TeamsInGames ==
    UNION {{ingested[k][1], ingested[k][2]} : k \in 1..Len(ingested)}

C23_ReadStep ==
    last_call'.op \in ReadOperations =>
        /\ DOMAIN teams' = DOMAIN teams
        /\ team_keys' = team_keys
        /\ \A t \in DOMAIN teams :
              /\ teams'[t].wins = teams[t].wins
              /\ teams'[t].losses = teams[t].losses
              /\ teams'[t].ties = teams[t].ties
              /\ teams'[t].opponents = teams[t].opponents
              /\ teams'[t].games = teams[t].games
        /\ last_call'.op = "calculate_npi" =>
              {rankings'[i].team : i \in 1..Len(rankings')} = TeamsInGames

C23_RecordsOnlyFromGames == [][C23_ReadStep]_vars

(***************************************************************************)
(* C24.  There is no home or away advantage: when any one ingested game    *)
(* (home, away, hs, as) is replaced by the mirrored game                   *)
(* (away, home, as, hs), calculate_npi reports for every team the same     *)
(* wins, losses, ties, win percentage, strength of schedule, quality-win   *)
(* bonus and npi.                                                          *)
(***************************************************************************)
Mirrored(game) == <<game[2], game[1], game[4], game[3]>>

\* the ingested games with game k mirrored
MirroredAt(k) == [ingested EXCEPT ![k] = Mirrored(@)]

\* the call just made, on a new engine that ingested the games with game k
\* mirrored
OnMirrored(k) ==
    calculate_npi(Replay(NewEngine, MirroredAt(k), 1), EmptyMap, last_call.max_iterations,
                  last_call.convergence_threshold).result

C24_NoHomeAdvantage ==
    IsCall("calculate_npi") =>
        \A k \in 1..Len(ingested) :
            \A i \in 1..Len(rankings) :
                \E j \in 1..Len(OnMirrored(k)) :
                    LET here == rankings[i]
                        there == OnMirrored(k)[j]
                    IN /\ there.team = here.team
                       /\ there.wins = here.wins
                       /\ there.losses = here.losses
                       /\ there.ties = here.ties
                       /\ there.win_percentage = here.win_percentage
                       /\ there.strength_of_schedule = here.strength_of_schedule
                       /\ there.quality_win_bonus = here.quality_win_bonus
                       /\ there.npi = here.npi

====
